---- MODULE Spec2Model ----
(***************************************************************************)
(* Authentication / session lifecycle of the secure-auth application.      *)
(*                                                                         *)
(* Server side: the JSON file store (users, refreshTokens), the token      *)
(* codec (jsonwebtoken sign / verify with two secrets) and the routes      *)
(* register, login, refresh, logout, logout-all and the OAuth callbacks.   *)
(* Every route is an async handler: between two awaited file operations   *)
(* other requests may run, so each handler is a sequence of steps, one     *)
(* per file read or file write.  A handler's response is a function of    *)
(* what it read and of its input; a request answered without any write     *)
(* leaves the server as it was.                                            *)
(*                                                                         *)
(* Client side: the axios response interceptor of AuthService (refresh     *)
(* once on 401 and replay), specified separately as SpecClient, and the     *)
(* operations of AuthProvider built on it (SpecContext).                   *)
(***************************************************************************)
EXTENDS Integers, Sequences, FiniteSets, TLC

VARIABLES
    db,         \* contents of users.json: [users, refreshTokens]
    now,        \* Date.now(), milliseconds
    nextId,     \* source of generateId() values
    req,        \* in-flight request of each connection slot
    sessions,   \* number of session-issuing requests admitted so far
    revocations,\* number of Logout / LogoutAll requests that reached the store so far
    ticks,      \* number of clock advances so far
    issuedRT,   \* refresh tokens delivered to a client in a cookie
    issuedAT,   \* access tokens delivered to a client when its session was issued
    loggedOut,  \* refresh tokens for which a Logout request has completed
    revokedAll, \* refresh tokens issued to U before a completed LogoutAll(U)
    cl          \* state of the Client Session Agent (SpecClient)

serverVars == <<db, now, nextId, req, sessions, revocations, ticks,
                issuedRT, issuedAT, loggedOut, revokedAll>>
vars == <<db, now, nextId, req, sessions, revocations, ticks,
          issuedRT, issuedAT, loggedOut, revokedAll, cl>>

---------------------------------------------------------------------------
(* Bounds of the model *)

MaxSessions == 2
MaxRevocations == 2
MaxTicks == 2
Slots == {1, 2}

\* the addresses clients type; "A@x.com" is the address a@x.com as its owner writes it
Emails == {"a@x.com", "b@x.com", "A@x.com"}
GoodPassword == "Abc12345!"
LoginPasswords == {"Abc12345!", "Wrong1234!"}

\* request bodies: the well-formed ones, and one that fails validation
RegisterBodies ==
    {[email |-> e, valid |-> TRUE] : e \in Emails}
        \cup {[email |-> "not-an-email", valid |-> FALSE]}
\* an address nobody registers and no provider reports
UnknownEmail == "nobody@x.com"
LoginBodies ==
    {[email |-> e, password |-> p, valid |-> TRUE] :
        e \in Emails \cup {UnknownEmail}, p \in LoginPasswords}
        \cup {[email |-> "not-an-email", password |-> "", valid |-> FALSE]}

(* Program constants *)
ACCESS_TOKEN_SECRET == "access-token-secret"
REFRESH_TOKEN_SECRET == "refresh-token-secret"
Issuer == "secure-auth-app"
Audience == "secure-auth-client"
AccessTtlSeconds == 15 * 60
RefreshTtlSeconds == 7 * 24 * 60 * 60
RefreshTtlMillis == 7 * 24 * 60 * 60 * 1000

OneSecond == 1 * 1000
ClockSteps == {OneSecond, RefreshTtlMillis}

Undefined == "undefined"

---------------------------------------------------------------------------
(* Token codec: jsonwebtoken sign / verify.  An HS256 token is determined  *)
(* by its payload and the secret that signed it, so a token is modelled as *)
(* the record of both.                                                     *)

NoToken ==
    [sig |-> Undefined, userId |-> 0, email |-> Undefined,
     iat |-> 0, exp |-> 0, iss |-> Undefined, aud |-> Undefined]

JwtSign(payload, secret, ttl, t) ==
    [sig |-> secret, userId |-> payload.userId, email |-> payload.email,
     iat |-> t \div 1000, exp |-> (t \div 1000) + ttl,
     iss |-> Issuer, aud |-> Audience]

\* jwt.verify: TRUE when it returns the payload, FALSE when it throws
JwtVerify(token, secret, t) ==
    /\ token.sig = secret
    /\ token.iss = Issuer
    /\ token.aud = Audience
    /\ ~((t \div 1000) >= token.exp)

generateAccessToken(payload, t) ==
    JwtSign(payload, ACCESS_TOKEN_SECRET, AccessTtlSeconds, t)

generateRefreshToken(payload, t) ==
    JwtSign(payload, REFRESH_TOKEN_SECRET, RefreshTtlSeconds, t)

verifyAccessToken(token, t) == JwtVerify(token, ACCESS_TOKEN_SECRET, t)

\* a verification that would accept a token signed with either secret
verifyRefreshTokenEitherSecret(token, t) ==
    \/ JwtVerify(token, REFRESH_TOKEN_SECRET, t)
    \/ JwtVerify(token, ACCESS_TOKEN_SECRET, t)

verifyRefreshToken(token, t) == JwtVerify(token, REFRESH_TOKEN_SECRET, t)

---------------------------------------------------------------------------
(* The file store *)

\* new Date().toISOString() and new Date(iso): millisecond precision both ways
ToISOString(ms) == <<"iso", ms>>
DateOf(iso) == iso[2]

EmptyDB == [users |-> <<>>, refreshTokens |-> <<>>]

NoUser ==
    [id |-> 0, email |-> Undefined, password |-> Undefined, name |-> Undefined,
     provider |-> Undefined, isVerified |-> Undefined, googleId |-> Undefined,
     githubId |-> Undefined, avatar |-> Undefined,
     createdAt |-> ToISOString(0), updatedAt |-> ToISOString(0)]

\* bcrypt.hash / bcrypt.compare: a digest matches exactly the password it was made of
Hash(password) ==
    IF password = "Abc12345!" THEN "$2a$12$digest-of-Abc12345!"
    ELSE "$2a$12$digest-of-Wrong1234!"
Compare(password, digest) == digest = Hash(password)

\* Array.prototype.find: the index of the first element that satisfies the test
\* (hits: the indices of those that do), 0 when there is none
FirstIndex(hits) ==
    IF hits = {} THEN 0 ELSE CHOOSE i \in hits : \A j \in hits : i <= j

\* generateId(): Date.now() in base 36 followed by a random suffix; the values are
\* modelled as fresh (taken from nextId).
generateId(n) == n

UserData(email, password, name, provider, isVerified, googleId, githubId, avatar) ==
    [email |-> email, password |-> password, name |-> name, provider |-> provider,
     isVerified |-> isVerified, googleId |-> googleId, githubId |-> githubId,
     avatar |-> avatar]

\* { id, ...userData, createdAt, updatedAt }
NewUser(userData, id, t) ==
    [id |-> id, email |-> userData.email, password |-> userData.password,
     name |-> userData.name, provider |-> userData.provider,
     isVerified |-> userData.isVerified, googleId |-> userData.googleId,
     githubId |-> userData.githubId, avatar |-> userData.avatar,
     createdAt |-> ToISOString(t), updatedAt |-> ToISOString(t)]

\* createUser after its readDB: the record built and the contents handed to writeDB
createUser(snapshot, userData, id, t) ==
    LET user == NewUser(userData, generateId(id), t)
    IN [db |-> [snapshot EXCEPT !.users = Append(@, user)], user |-> user]

getUserByEmail(d, email) ==
    LET i == FirstIndex({k \in 1..Len(d.users) : d.users[k].email = email})
    IN IF i = 0 THEN NoUser ELSE d.users[i]

getUserById(d, id) ==
    LET i == FirstIndex({k \in 1..Len(d.users) : d.users[k].id = id})
    IN IF i = 0 THEN NoUser ELSE d.users[i]

Truthy(v) == v # Undefined /\ v # ""

\* findOrCreateUser after its readDB: the record returned and the contents handed
\* to writeDB
findOrCreateUser(snapshot, userData, id, t) ==
    LET i == FirstIndex({k \in 1..Len(snapshot.users) :
                            snapshot.users[k].email = userData.email})
    IN IF i = 0
       THEN LET user == NewUser(userData, generateId(id), t)
            IN [db |-> [snapshot EXCEPT !.users = Append(@, user)], user |-> user]
       ELSE LET old == snapshot.users[i]
                user == [old EXCEPT
                           !.updatedAt = ToISOString(t),
                           !.googleId = IF Truthy(userData.googleId)
                                        THEN userData.googleId ELSE @,
                           !.githubId = IF Truthy(userData.githubId)
                                        THEN userData.githubId ELSE @,
                           !.avatar = IF Truthy(userData.avatar)
                                      THEN userData.avatar ELSE @]
            IN [db |-> [snapshot EXCEPT !.users[i] = user], user |-> user]

NoRecord ==
    [userId |-> 0, token |-> NoToken,
     createdAt |-> ToISOString(0), expiresAt |-> ToISOString(0)]

\* saveRefreshToken after its readDB.  The record's own id (generateId()) is
\* written and never read by any operation; it is left out of the record.
saveRefreshToken(snapshot, userId, token, t) ==
    LET refreshToken ==
            [userId |-> userId, token |-> token,
             createdAt |-> ToISOString(t),
             expiresAt |-> ToISOString(t + RefreshTtlMillis)]
    IN [snapshot EXCEPT !.refreshTokens = Append(@, refreshToken)]

\* a lookup that would take any unexpired record, whatever its token
getRefreshTokenAnyToken(d, token, t) ==
    LET i == FirstIndex({k \in 1..Len(d.refreshTokens) :
                            DateOf(d.refreshTokens[k].expiresAt) > t})
    IN IF i = 0 THEN NoRecord ELSE d.refreshTokens[i]

getRefreshToken(d, token, t) ==
    LET i == FirstIndex({k \in 1..Len(d.refreshTokens) :
                            /\ d.refreshTokens[k].token = token
                            /\ DateOf(d.refreshTokens[k].expiresAt) > t})
    IN IF i = 0 THEN NoRecord ELSE d.refreshTokens[i]

\* deleteRefreshToken after its readDB
deleteRefreshToken(snapshot, token) ==
    LET Keep(rt) == rt.token # token
    IN [snapshot EXCEPT !.refreshTokens = SelectSeq(@, Keep)]

\* deleteUserRefreshTokens after its readDB
deleteUserRefreshTokens(snapshot, userId) ==
    LET Keep(rt) == rt.userId # userId
    IN [snapshot EXCEPT !.refreshTokens = SelectSeq(@, Keep)]

\* a response that would carry the record as stored
WithStoredFields(user) == user

\* const { password, ...userWithoutPassword } = user
WithoutPassword(user) == [user EXCEPT !.password = Undefined]

---------------------------------------------------------------------------
(* Requests and responses *)

Idle ==
    [pc |-> "idle", op |-> "none", email |-> Undefined, presented |-> NoToken,
     user |-> NoUser, access |-> NoToken, refresh |-> NoToken, pending |-> EmptyDB]

\* res.status(status).json({ error, user, accessToken }) with
\* res.cookie('refreshToken', cookie): the JSON body is the fields error, user and
\* accessToken (the success bodies' message text is left out)
Response(status, error, user, accessToken, cookie) ==
    [status |-> status, error |-> error, user |-> user, accessToken |-> accessToken,
     cookie |-> cookie]

\* the handler has not answered: it goes on to its next file operation
NoResponse == Response(0, Undefined, NoUser, NoToken, NoToken)

\* res.status(status).json({ error })
Failure(status, error) == Response(status, error, NoUser, NoToken, NoToken)

\* a handler suspended at an awaited file operation resumes
Resume(s, pc) == req[s].pc = pc

\* a request arrives on a free connection (the free connections are interchangeable)
Accept(s) ==
    /\ Resume(s, "idle")
    /\ \A r \in Slots : r < s => req[r].pc # "idle"

\* a session-issuing request goes on to create a session
Admit ==
    /\ sessions < MaxSessions
    /\ sessions' = sessions + 1
    /\ UNCHANGED revocations

\* a Logout or LogoutAll request goes on to rewrite the store
AdmitRevocation ==
    /\ revocations < MaxRevocations
    /\ revocations' = revocations + 1
    /\ UNCHANGED sessions

\* the request is answered without any write
Answered == UNCHANGED vars

\* the profiles the identity providers hand to the verify callbacks
Profiles ==
    { [provider |-> "google", id |-> "google-1", email |-> "a@x.com",
       name |-> "A Google", avatar |-> "google.png"],
      [provider |-> "github", id |-> "github-1", email |-> "a@x.com",
       name |-> "A GitHub", avatar |-> "github.png"],
      [provider |-> "github", id |-> "github-2", email |-> "A@x.com",
       name |-> "A GitHub", avatar |-> "github.png"] }

\* the userData the GoogleStrategy / GitHubStrategy verify callbacks build
ProfileUserData(profile) ==
    UserData(profile.email, Undefined, profile.name, profile.provider, Undefined,
             IF profile.provider = "google" THEN profile.id ELSE Undefined,
             IF profile.provider = "github" THEN profile.id ELSE Undefined,
             profile.avatar)

\* the userData router.post('/register') hands to createUser
RegisterUserData(email, password, name) ==
    UserData(email, Hash(password), name, "local", "true",
             Undefined, Undefined, Undefined)

AccessPayload(user) == [userId |-> user.id, email |-> user.email]
RefreshPayload(user) == [userId |-> user.id, email |-> Undefined]

\* express-validator's normalizeEmail(): the address in lower case (for the
\* addresses of Emails; these have no gmail dots or sub-addresses to strip)
normalizeEmail(email) == IF email = "A@x.com" THEN "a@x.com" ELSE email

---------------------------------------------------------------------------
(* router.post('/register') *)

\* validation, then getUserByEmail: 400, 409, or no answer yet
RegisterCheckResponse(d, rawEmail, valid) ==
    IF ~valid THEN Failure(400, "Validation failed")
    ELSE IF getUserByEmail(d, normalizeEmail(rawEmail)).id # 0
    THEN Failure(409, "User already exists")
    ELSE NoResponse

RegisterCheck(s, rawEmail, valid) ==
    /\ Accept(s)
    /\ IF RegisterCheckResponse(db, rawEmail, valid) # NoResponse
       THEN Answered
       ELSE /\ Admit
            /\ req' = [req EXCEPT ![s] = [Idle EXCEPT !.pc = "reg_read",
                                                       !.op = "register",
                                                       !.email = normalizeEmail(rawEmail)]]
            /\ UNCHANGED <<db, now, nextId, ticks, issuedRT, issuedAT, loggedOut,
                           revokedAll, cl>>

\* createUser: readDB and the new record
RegisterCreateRead(s) ==
    /\ Resume(s, "reg_read")
    /\ LET r == createUser(db, RegisterUserData(req[s].email, GoodPassword, "A"),
                           nextId, now)
       IN req' = [req EXCEPT ![s].pc = "reg_write", ![s].user = r.user,
                             ![s].pending = r.db]
    /\ nextId' = nextId + 1
    /\ UNCHANGED <<db, now, sessions, revocations, ticks, issuedRT, issuedAT,
                   loggedOut, revokedAll, cl>>

\* createUser: writeDB; then the two tokens are signed
RegisterCreateWrite(s) ==
    /\ Resume(s, "reg_write")
    /\ db' = req[s].pending
    /\ req' = [req EXCEPT
                 ![s].pc = "save_read",
                 ![s].access = generateAccessToken(AccessPayload(req[s].user), now),
                 ![s].refresh = generateRefreshToken(RefreshPayload(req[s].user), now),
                 ![s].pending = EmptyDB]
    /\ UNCHANGED <<now, nextId, sessions, revocations, ticks, issuedRT, issuedAT,
                   loggedOut, revokedAll, cl>>

(* saveRefreshToken, shared by register, login and the OAuth callbacks *)

SaveRead(s) ==
    /\ Resume(s, "save_read")
    /\ req' = [req EXCEPT
                 ![s].pc = "save_write",
                 ![s].pending = saveRefreshToken(db, req[s].user.id, req[s].refresh,
                                                 now)]
    /\ UNCHANGED <<db, now, nextId, sessions, revocations, ticks, issuedRT, issuedAT,
                   loggedOut, revokedAll, cl>>

\* the response of a request that issued a session: 201 (register), 200 (login),
\* or the redirect to the frontend with ?token= (OAuth callback)
SessionResponse(r) ==
    Response(IF r.op = "register" THEN 201 ELSE IF r.op = "login" THEN 200 ELSE 302,
             Undefined,
             IF r.op = "oauth" THEN NoUser ELSE WithoutPassword(r.user),
             r.access, r.refresh)

\* writeDB, then the cookie and the response
SaveWrite(s) ==
    /\ Resume(s, "save_write")
    /\ db' = req[s].pending
    /\ issuedRT' = issuedRT \cup {SessionResponse(req[s]).cookie}
    /\ issuedAT' = issuedAT \cup {SessionResponse(req[s]).accessToken}
    /\ req' = [req EXCEPT ![s] = Idle]
    /\ UNCHANGED <<now, nextId, sessions, revocations, ticks, loggedOut, revokedAll, cl>>

---------------------------------------------------------------------------
(* router.post('/login') *)

\* a login handler that would tell an unknown email from a wrong password
LoginCheckResponseTelling(d, rawEmail, password, valid) ==
    LET user == getUserByEmail(d, normalizeEmail(rawEmail))
    IN IF ~valid THEN Failure(400, "Validation failed")
       ELSE IF user.id = 0 THEN Failure(404, "User not found")
       ELSE IF ~Truthy(user.password) THEN Failure(401, "Invalid credentials")
       ELSE IF ~Compare(password, user.password)
       THEN Failure(401, "Invalid credentials")
       ELSE NoResponse

\* validation, getUserByEmail and bcrypt.compare: 400, 401, or no answer yet
LoginCheckResponse(d, rawEmail, password, valid) ==
    LET user == getUserByEmail(d, normalizeEmail(rawEmail))
    IN IF ~valid THEN Failure(400, "Validation failed")
       ELSE IF user.id = 0 \/ ~Truthy(user.password)
       THEN Failure(401, "Invalid credentials")
       ELSE IF ~Compare(password, user.password)
       THEN Failure(401, "Invalid credentials")
       ELSE NoResponse

Login(s, rawEmail, password, valid) ==
    /\ Accept(s)
    /\ IF LoginCheckResponse(db, rawEmail, password, valid) # NoResponse
       THEN Answered
       ELSE LET user == getUserByEmail(db, normalizeEmail(rawEmail))
            IN /\ Admit
               /\ req' = [req EXCEPT ![s] =
                            [Idle EXCEPT
                               !.pc = "save_read", !.op = "login",
                               !.email = normalizeEmail(rawEmail), !.user = user,
                               !.access = generateAccessToken(AccessPayload(user), now),
                               !.refresh = generateRefreshToken(RefreshPayload(user), now)]]
               /\ UNCHANGED <<db, now, nextId, ticks, issuedRT, issuedAT, loggedOut,
                              revokedAll, cl>>

---------------------------------------------------------------------------
(* The OAuth callbacks: passport verify callback (findOrCreateUser), then the
   route handler *)

\* findOrCreateUser: readDB, then the user is created or updated in memory
OAuthRead(s, profile) ==
    /\ Accept(s)
    /\ Admit
    /\ LET r == findOrCreateUser(db, ProfileUserData(profile), nextId, now)
       IN /\ req' = [req EXCEPT ![s] =
                       [Idle EXCEPT !.pc = "oauth_write", !.op = "oauth",
                                    !.email = profile.email, !.user = r.user,
                                    !.pending = r.db]]
          /\ nextId' = IF Len(r.db.users) > Len(db.users) THEN nextId + 1 ELSE nextId
    /\ UNCHANGED <<db, now, ticks, issuedRT, issuedAT, loggedOut, revokedAll, cl>>

\* findOrCreateUser: writeDB; the callback route then signs the two tokens
OAuthWrite(s) ==
    /\ Resume(s, "oauth_write")
    /\ db' = req[s].pending
    /\ req' = [req EXCEPT
                 ![s].pc = "save_read",
                 ![s].access = generateAccessToken(AccessPayload(req[s].user), now),
                 ![s].refresh = generateRefreshToken(RefreshPayload(req[s].user), now),
                 ![s].pending = EmptyDB]
    /\ UNCHANGED <<now, nextId, sessions, revocations, ticks, issuedRT, issuedAT,
                   loggedOut, revokedAll, cl>>

---------------------------------------------------------------------------
(* router.post('/refresh') *)

\* the access token the refresh handler signs from the decoded refresh token
RefreshAccessToken(decoded, t) ==
    generateAccessToken([userId |-> decoded.userId, email |-> decoded.email], t)

\* the whole handler: it reads the store once and writes nothing.  storeFails: the
\* readDB of getRefreshToken throws, which the handler's one catch block answers
\* like a verification failure
RefreshHandler(d, refreshToken, t, storeFails) ==
    IF refreshToken = NoToken THEN Failure(401, "Refresh token required")
    ELSE IF ~verifyRefreshToken(refreshToken, t)
    THEN Failure(403, "Invalid refresh token")
    ELSE IF storeFails
    THEN Failure(403, "Invalid refresh token")
    ELSE IF getRefreshToken(d, refreshToken, t) = NoRecord
    THEN Failure(403, "Invalid refresh token")
    ELSE Response(200, Undefined, NoUser, RefreshAccessToken(refreshToken, t), NoToken)

\* the handler's answer when the store can be read
RefreshResponse(d, refreshToken, t) == RefreshHandler(d, refreshToken, t, FALSE)

\* a handler that would rotate the token: the presented record is deleted
RefreshStoreRotating(d, refreshToken, t) == deleteRefreshToken(d, refreshToken)

\* the contents of the store after the handler: its one store call is
\* getRefreshToken, which reads, searches and writes nothing back
RefreshStore(d, refreshToken, t) == d

Refresh(s, cookie, storeFails) ==
    /\ Accept(s)
    /\ RefreshHandler(db, cookie, now, storeFails).status \in {200, 401, 403}
    /\ db' = RefreshStore(db, cookie, now)
    /\ UNCHANGED <<now, nextId, req, sessions, revocations, ticks, issuedRT, issuedAT,
                   loggedOut, revokedAll, cl>>

---------------------------------------------------------------------------
(* router.post('/logout') *)

\* res.clearCookie('refreshToken'); res.json({ message }): the answer of logout
\* and of logout-all, whatever was presented
LogoutResponse(cookie) == Response(200, Undefined, NoUser, NoToken, NoToken)

\* deleteRefreshToken: readDB and the filtered list; without a cookie the handler
\* answers at once
LogoutRead(s, cookie) ==
    /\ Accept(s)
    /\ IF cookie = NoToken
       THEN Answered
       ELSE /\ AdmitRevocation
            /\ req' = [req EXCEPT ![s] =
                         [Idle EXCEPT !.pc = "logout_write", !.op = "logout",
                                      !.presented = cookie,
                                      !.pending = deleteRefreshToken(db, cookie)]]
            /\ UNCHANGED <<db, now, nextId, ticks, issuedRT, issuedAT, loggedOut,
                           revokedAll, cl>>

\* deleteRefreshToken: writeDB; then clearCookie and the 200 response
LogoutWrite(s) ==
    /\ Resume(s, "logout_write")
    /\ db' = req[s].pending
    /\ loggedOut' = loggedOut \cup {req[s].presented}
    /\ req' = [req EXCEPT ![s] = Idle]
    /\ UNCHANGED <<now, nextId, sessions, revocations, ticks, issuedRT, issuedAT,
                   revokedAll, cl>>

---------------------------------------------------------------------------
(* router.post('/logout-all') *)

\* the authenticateToken middleware: the user of a valid bearer access token
\* (req.user), or NoUser when it answers 401
authenticateToken(d, bearer, t) ==
    IF bearer = NoToken \/ ~verifyAccessToken(bearer, t) THEN NoUser
    ELSE getUserById(d, bearer.userId)

\* authenticateToken, then deleteUserRefreshTokens: readDB and the filtered list
LogoutAllRead(s, bearer) ==
    /\ Accept(s)
    /\ LET user == authenticateToken(db, bearer, now)
       IN IF user.id = 0
          THEN Answered
          ELSE /\ AdmitRevocation
               /\ req' = [req EXCEPT ![s] =
                            [Idle EXCEPT !.pc = "logoutall_write", !.op = "logout-all",
                                         !.user = user,
                                         !.pending = deleteUserRefreshTokens(db, user.id)]]
               /\ UNCHANGED <<db, now, nextId, ticks, issuedRT, issuedAT, loggedOut,
                              revokedAll, cl>>

\* deleteUserRefreshTokens: writeDB; then clearCookie and the 200 response
LogoutAllWrite(s) ==
    /\ Resume(s, "logoutall_write")
    /\ db' = req[s].pending
    /\ revokedAll' = revokedAll \cup {t \in issuedRT : t.userId = req[s].user.id}
    /\ req' = [req EXCEPT ![s] = Idle]
    /\ UNCHANGED <<now, nextId, sessions, revocations, ticks, issuedRT, issuedAT,
                   loggedOut, cl>>

---------------------------------------------------------------------------
(* router.get('/profile') *)

\* authenticateToken, then the user without its password
ProfileResponse(d, bearer, t) ==
    LET user == authenticateToken(d, bearer, t)
    IN IF user.id = 0 THEN Failure(401, "Access token required")
       ELSE Response(200, Undefined, WithoutPassword(user), NoToken, NoToken)

Profile(s, bearer) ==
    /\ Accept(s)
    /\ ProfileResponse(db, bearer, now).status \in {200, 401}
    /\ Answered

---------------------------------------------------------------------------
(* Failure of the store: readDB or writeDB (fs.readFile, fs.writeFile) throws *)

\* the operations whose handler starts with a file read and has a catch block
\* answering in JSON
StoreOperations == {"register", "login", "logout", "logout-all"}

\* what the handler's catch block answers when a file operation throws.  The OAuth
\* callbacks redirect to the login page when saveRefreshToken throws; when
\* findOrCreateUser throws, passport's done(error) ends in the default 500
StoreFailureResponse(op, pc) ==
    IF op = "register" THEN Failure(500, "Registration failed")
    ELSE IF op = "login" THEN Failure(500, "Login failed")
    ELSE IF op \in {"logout", "logout-all"} THEN Failure(500, "Logout failed")
    ELSE IF pc = "oauth_write" THEN Failure(500, "Internal Server Error")
    ELSE Failure(302, "oauth_failed")

\* the file operation a request is about to do throws: its handler answers with
\* the failure and ends, whatever it wrote before stays written.  For a request
\* that has not read yet (op: what was asked) nothing changes
StoreFailure(s, op) ==
    IF req[s].pc = "idle"
    THEN /\ Accept(s)
         /\ op \in StoreOperations
         /\ StoreFailureResponse(op, req[s].pc).status = 500
         /\ Answered
    ELSE /\ op = req[s].op
         /\ StoreFailureResponse(op, req[s].pc).status \in {500, 302}
         /\ req' = [req EXCEPT ![s] = Idle]
         /\ UNCHANGED <<db, now, nextId, sessions, revocations, ticks, issuedRT,
                        issuedAT, loggedOut, revokedAll, cl>>

---------------------------------------------------------------------------
(* The clock.  Time passes between requests: within a second, or by the   *)
(* refresh token lifetime.                                                 *)

Tick(d) ==
    /\ ticks < MaxTicks
    /\ \A s \in Slots : req[s].pc = "idle"
    /\ now' = now + d
    /\ ticks' = ticks + 1
    /\ UNCHANGED <<db, nextId, req, sessions, revocations, issuedRT, issuedAT,
                   loggedOut, revokedAll, cl>>

---------------------------------------------------------------------------
(* The Client Session Agent: AuthService and its axios interceptors.  A call
   is a request config travelling through the interceptors; the refresh the
   response interceptor awaits is itself a call made with the same axios
   instance, so the calls in progress form a stack.  The server's answers are
   the environment's choice. *)

MaxCalls == 2
MaxDepth == 3

Statuses == {200, 401, 403, 500}
CallKinds == {"profile", "login"}

NoCall == [kind |-> "none", retry |-> FALSE, phase |-> "none", replays |-> 0,
           auth |-> 0, last |-> 0]

ClientInit ==
    [stack |-> <<>>,        \* the configs of the calls in progress, innermost last
     ret |-> "none",        \* outcome handed back by the call that just ended
     retToken |-> 0,        \* the accessToken of its response data
     token |-> 0,           \* AuthService.token (0: null)
     stored |-> 0,          \* localStorage 'accessToken' (0: absent)
     redirected |-> FALSE,  \* window.location.href = '/login' was assigned
     minted |-> 0,          \* the last access token the server handed out
     calls |-> 0,           \* calls made by the application so far
     refreshes |-> 0,       \* refresh requests sent since the application's call began
     settled |-> NoCall,    \* the application's last call, once it settled
     result |-> "none",     \* how it settled: resolved or rejected
     user |-> 0,            \* AuthProvider's user state (0: null)
     op |-> "none",         \* the AuthProvider operation in progress
     returned |-> "none"]   \* the AuthProvider operation that returned last

\* the request interceptor: Authorization: Bearer <token> when a token is held
NewCall(kind, token) ==
    [kind |-> kind, retry |-> FALSE, phase |-> "sent", replays |-> 0,
     auth |-> token, last |-> 0]

\* an interceptor that would not look at originalRequest._retry
ShouldRefreshAlways(status, retry) == status = 401

\* the response interceptor's test: error.response?.status === 401 && !originalRequest._retry
ShouldRefresh(status, retry) == status = 401 /\ ~retry

Top(stack) == stack[Len(stack)]
Pop(stack) == SubSeq(stack, 1, Len(stack) - 1)
SetTop(stack, frame) == [stack EXCEPT ![Len(stack)] = frame]

\* the application makes a call through the agent
ClientStart(kind) ==
    /\ cl.stack = <<>>
    /\ cl.ret = "none"
    /\ cl.calls < MaxCalls
    /\ cl' = [cl EXCEPT !.stack = <<NewCall(kind, cl.token)>>,
                        !.calls = @ + 1,
                        !.refreshes = 0,
                        !.settled = NoCall,
                        !.result = "none"]
    /\ UNCHANGED serverVars

\* the server answers the innermost call; the response interceptor runs
ClientAnswer(status) ==
    /\ cl.stack # <<>>
    /\ cl.ret = "none"
    /\ Top(cl.stack).phase = "sent"
    /\ LET frame == [Top(cl.stack) EXCEPT !.last = status]
       IN IF status = 200
          THEN \* (response) => response
               LET gives == frame.kind \in {"login", "refresh"}
               IN cl' = [cl EXCEPT
                           !.stack = SetTop(@, [frame EXCEPT !.phase = "ended"]),
                           !.ret = "ok",
                           !.retToken = IF gives THEN cl.minted + 1 ELSE 0,
                           !.minted = IF gives THEN @ + 1 ELSE @]
          ELSE IF ShouldRefresh(status, frame.retry)
          THEN \* originalRequest._retry = true; await this.refreshToken()
               /\ Len(cl.stack) < MaxDepth
               /\ cl' = [cl EXCEPT
                           !.stack = Append(SetTop(@, [frame EXCEPT
                                                         !.retry = TRUE,
                                                         !.phase = "awaiting"]),
                                            NewCall("refresh", cl.token)),
                           !.refreshes = @ + 1]
          ELSE \* return Promise.reject(error)
               cl' = [cl EXCEPT
                        !.stack = SetTop(@, [frame EXCEPT !.phase = "ended"]),
                        !.ret = "error",
                        !.retToken = 0]
    /\ UNCHANGED serverVars

\* a call ended: its promise settles in the interceptor that awaits it
ClientResume ==
    /\ Len(cl.stack) >= 2
    /\ cl.ret # "none"
    /\ Top(cl.stack).phase = "ended"
    /\ LET waiting == cl.stack[Len(cl.stack) - 1]
       IN IF cl.ret = "ok"
          THEN \* setToken, localStorage.setItem, Authorization header, axios(originalRequest)
               cl' = [cl EXCEPT
                        !.stack = SetTop(Pop(@), [waiting EXCEPT
                                                    !.phase = "sent",
                                                    !.replays = @ + 1,
                                                    !.auth = cl.retToken]),
                        !.token = cl.retToken,
                        !.stored = cl.retToken,
                        !.ret = "none",
                        !.retToken = 0]
          ELSE \* clearToken, localStorage.removeItem, redirect, Promise.reject(refreshError)
               cl' = [cl EXCEPT
                        !.stack = SetTop(Pop(@), [waiting EXCEPT !.phase = "ended"]),
                        !.token = 0,
                        !.stored = 0,
                        !.redirected = TRUE,
                        !.ret = "error",
                        !.retToken = 0]
    /\ UNCHANGED serverVars

\* the application's call settles; AuthProvider.login keeps the token it received
ClientSettle ==
    /\ Len(cl.stack) = 1
    /\ cl.ret # "none"
    /\ Top(cl.stack).phase = "ended"
    /\ LET call == Top(cl.stack)
           keeps == call.kind = "login" /\ cl.ret = "ok"
       IN cl' = [cl EXCEPT
                   !.stack = <<>>,
                   !.settled = call,
                   !.result = IF cl.ret = "ok" THEN "resolved" ELSE "rejected",
                   !.stored = IF keeps THEN cl.retToken ELSE @,
                   !.token = IF keeps THEN cl.retToken ELSE @,
                   !.ret = "none",
                   !.retToken = 0]
    /\ UNCHANGED serverVars

---------------------------------------------------------------------------
(* AuthProvider: the operations of the auth context, each one call through the
   agent followed by what the operation does with the outcome.  They are the
   operations of SpecContext. *)

\* the page is loaded with the token a previous visit left in localStorage, if
\* any: AuthService is constructed (token = null) and initAuth runs.  Without a
\* stored token it does nothing; with one it sets it and fetches the profile
InitAuth ==
    /\ cl.stack = <<>>
    /\ cl.ret = "none"
    /\ cl.op = "none"
    /\ cl.calls < MaxCalls
    /\ IF cl.stored = 0
       THEN cl' = [cl EXCEPT !.token = 0, !.user = 0, !.calls = @ + 1,
                             !.returned = "initAuth"]
       ELSE cl' = [cl EXCEPT !.token = cl.stored, !.user = 0,
                             !.stack = <<NewCall("profile", cl.stored)>>,
                             !.calls = @ + 1, !.refreshes = 0,
                             !.settled = NoCall, !.result = "none",
                             !.op = "initAuth"]
    /\ UNCHANGED serverVars

\* login(email, password) and register(email, password, name) of the context:
\* the two do the same with the response
ContextLogin ==
    /\ cl.stack = <<>>
    /\ cl.ret = "none"
    /\ cl.op = "none"
    /\ cl.calls < MaxCalls
    /\ cl' = [cl EXCEPT !.stack = <<NewCall("login", cl.token)>>,
                        !.calls = @ + 1, !.refreshes = 0,
                        !.settled = NoCall, !.result = "none",
                        !.op = "login"]
    /\ UNCHANGED serverVars

\* logout() of the context: await authService.logout()
ContextLogout ==
    /\ cl.stack = <<>>
    /\ cl.ret = "none"
    /\ cl.op = "none"
    /\ cl.calls < MaxCalls
    /\ cl' = [cl EXCEPT !.stack = <<NewCall("logout", cl.token)>>,
                        !.calls = @ + 1, !.refreshes = 0,
                        !.settled = NoCall, !.result = "none",
                        !.op = "logout"]
    /\ UNCHANGED serverVars

\* the awaited call settled: the rest of the operation runs and it returns
ContextSettle ==
    /\ Len(cl.stack) = 1
    /\ cl.ret # "none"
    /\ cl.op # "none"
    /\ Top(cl.stack).phase = "ended"
    /\ LET ok == cl.ret = "ok"
           done == [cl EXCEPT !.stack = <<>>,
                              !.settled = Top(cl.stack),
                              !.result = IF ok THEN "resolved" ELSE "rejected",
                              !.ret = "none",
                              !.retToken = 0,
                              !.op = "none",
                              !.returned = cl.op]
       IN cl' =
            IF cl.op = "initAuth"
            THEN \* setUser(profile) | catch: localStorage.removeItem('accessToken')
                 IF ok THEN [done EXCEPT !.user = 1]
                 ELSE [done EXCEPT !.stored = 0]
            ELSE IF cl.op = "login"
            THEN \* setItem, setToken, setUser | catch: throw error
                 IF ok THEN [done EXCEPT !.stored = cl.retToken,
                                         !.token = cl.retToken, !.user = 1]
                 ELSE done
            ELSE \* logout: removeItem, clearToken, setUser(null) | catch: console.error
                 IF ok THEN [done EXCEPT !.stored = 0, !.token = 0, !.user = 0]
                 ELSE done
    /\ UNCHANGED serverVars

---------------------------------------------------------------------------
(* The server *)

Init ==
    /\ db = EmptyDB
    /\ now = 0
    /\ nextId = 1
    /\ req = [s \in Slots |-> Idle]
    /\ sessions = 0
    /\ revocations = 0
    /\ ticks = 0
    /\ issuedRT = {}
    /\ issuedAT = {}
    /\ loggedOut = {}
    /\ revokedAll = {}
    /\ cl = ClientInit

Cookies == {NoToken} \cup issuedRT
Bearers == {NoToken} \cup issuedAT
\* what a client can put in a cookie or an Authorization header of a request that
\* only reads: nothing, or any token it was handed, of either kind
Presentable == {NoToken} \cup issuedRT \cup issuedAT

Next ==
    \/ \E s \in Slots, b \in RegisterBodies : RegisterCheck(s, b.email, b.valid)
    \/ \E s \in Slots : RegisterCreateRead(s)
    \/ \E s \in Slots : RegisterCreateWrite(s)
    \/ \E s \in Slots : SaveRead(s)
    \/ \E s \in Slots : SaveWrite(s)
    \/ \E s \in Slots, b \in LoginBodies : Login(s, b.email, b.password, b.valid)
    \/ \E s \in Slots, profile \in Profiles : OAuthRead(s, profile)
    \/ \E s \in Slots : OAuthWrite(s)
    \/ \E s \in Slots, c \in Presentable, f \in BOOLEAN : Refresh(s, c, f)
    \/ \E s \in Slots, c \in Cookies : LogoutRead(s, c)
    \/ \E s \in Slots : LogoutWrite(s)
    \/ \E s \in Slots, b \in Bearers : LogoutAllRead(s, b)
    \/ \E s \in Slots : LogoutAllWrite(s)
    \/ \E s \in Slots, b \in Presentable : Profile(s, b)
    \/ \E s \in Slots, op \in StoreOperations \cup {"oauth"} : StoreFailure(s, op)
    \/ \E d \in ClockSteps : Tick(d)

Spec == Init /\ [][Next]_vars

NextClient ==
    \/ \E k \in CallKinds : ClientStart(k)
    \/ \E st \in Statuses : ClientAnswer(st)
    \/ ClientResume
    \/ ClientSettle

SpecClient == Init /\ [][NextClient]_vars

NextContext ==
    \/ InitAuth
    \/ ContextLogin
    \/ ContextLogout
    \/ \E st \in Statuses : ClientAnswer(st)
    \/ ClientResume
    \/ ContextSettle

SpecContext == Init /\ [][NextContext]_vars

(* The identity resolver on its own: OAuth callbacks arriving at a server on
   which a@x.com has registered (the state after one completed Register) *)

RegisteredUser ==
    createUser(EmptyDB, RegisterUserData("a@x.com", GoodPassword, "A"), 1, 0).user

RegisteredDB ==
    saveRefreshToken(
        createUser(EmptyDB, RegisterUserData("a@x.com", GoodPassword, "A"), 1, 0).db,
        RegisteredUser.id, generateRefreshToken(RefreshPayload(RegisteredUser), 0), 0)

InitResolver ==
    /\ db = RegisteredDB
    /\ now = 0
    /\ nextId = 2
    /\ req = [s \in Slots |-> Idle]
    /\ sessions = 0
    /\ revocations = 0
    /\ ticks = 0
    /\ issuedRT = {generateRefreshToken(RefreshPayload(RegisteredUser), 0)}
    /\ issuedAT = {generateAccessToken(AccessPayload(RegisteredUser), 0)}
    /\ loggedOut = {}
    /\ revokedAll = {}
    /\ cl = ClientInit

NextResolver ==
    \/ \E s \in Slots, profile \in Profiles : OAuthRead(s, profile)
    \/ \E s \in Slots : OAuthWrite(s)
    \/ \E s \in Slots : SaveRead(s)
    \/ \E s \in Slots : SaveWrite(s)
    \/ \E d \in ClockSteps : Tick(d)

SpecResolver == InitResolver /\ [][NextResolver]_vars

---------------------------------------------------------------------------
(* Properties *)

\* what a Refresh request presenting t would be answered in the current state
RefreshNow(t) == RefreshResponse(db, t, now)

\* C1: once a Logout request that presented refresh token t has completed, every
\* later Refresh presenting t is answered 403 and mints no access token.
C1_LoggedOutTokenRejected ==
    \A t \in loggedOut :
        /\ RefreshNow(t).status = 403
        /\ RefreshNow(t).accessToken = NoToken

\* C2: once a LogoutAll request of user U has completed, every refresh token that
\* had been issued to U before it completed is rejected by every later Refresh.
C2_LogoutAllRevokesEveryToken ==
    \A t \in revokedAll : RefreshNow(t).status = 403

Records(d) == {d.refreshTokens[i] : i \in 1..Len(d.refreshTokens)}
Users(d) == {d.users[i] : i \in 1..Len(d.users)}

\* C3: the write of a Logout of token t leaves every record whose token differs
\* from t in the store, the write of a LogoutAll of user U leaves every record
\* whose userId differs from U in the store and as acceptable to Refresh as it
\* was, and neither changes a User record.
C3_RevocationFrame ==
    [][\A s \in Slots :
          /\ (req[s].pc = "logout_write" /\ req'[s].pc = "idle") =>
                /\ \A rt \in Records(db) :
                      rt.token # req[s].presented => rt \in Records(db')
                /\ db'.users = db.users
          /\ (req[s].pc = "logoutall_write" /\ req'[s].pc = "idle") =>
                /\ \A rt \in Records(db) :
                      rt.userId # req[s].user.id =>
                          /\ rt \in Records(db')
                          /\ RefreshResponse(db', rt.token, now').status
                                 = RefreshNow(rt.token).status
                /\ db'.users = db.users]_vars

\* the 7-day lifetime of a refresh token signed at second t.iat has not run out
Unexpired(t) == now < (t.iat * 1000) + RefreshTtlMillis

\* C4: a refresh token that has been issued, that no completed Logout or LogoutAll
\* has deleted and whose 7 days have not run out is answered 200 with an access
\* token whenever it is presented to Refresh.
C4_LiveTokenAccepted ==
    \A t \in issuedRT :
        (t \notin loggedOut /\ t \notin revokedAll /\ Unexpired(t)) =>
            /\ RefreshNow(t).status = 200
            /\ RefreshNow(t).accessToken # NoToken

\* C5: no two User records of the store have the same email.
C5_UniqueEmails ==
    \A i, j \in 1..Len(db.users) :
        db.users[i].email = db.users[j].email => i = j

\* a session has been issued to the user: the request that created or found the
\* record has completed
HasSession(u) == \E a \in issuedAT : a.userId = u.id

\* C6: Register with an email for which a User record exists (left by a completed
\* registration or OAuth login) is answered 409.
C6_RegisterExistingEmailConflict ==
    \A e \in Emails :
        (\E u \in Users(db) : u.email = e /\ HasSession(u)) =>
            RegisterCheckResponse(db, e, TRUE).status = 409

\* C7: every access token the server mints carries the userId and the email of
\* the session's user: the tokens of Register, Login and the OAuth callbacks do,
\* and a token minted by Refresh carries the userId and email of the access token
\* minted when the session was issued.
C7_AccessTokenCarriesIdentity ==
    /\ \A a \in issuedAT : a.userId # 0 /\ Truthy(a.email)
    /\ \A t \in issuedRT :
          RefreshNow(t).status = 200 =>
              \E a \in issuedAT :
                  /\ a.userId = t.userId
                  /\ RefreshNow(t).accessToken.userId = a.userId
                  /\ RefreshNow(t).accessToken.email = a.email

\* a local account no provider has been linked to
LocalOnly(u) ==
    u.provider = "local" /\ ~Truthy(u.googleId) /\ ~Truthy(u.githubId)

ProviderId(u, provider) == IF provider = "google" THEN u.googleId ELSE u.githubId

\* C8: resolving a Google or GitHub identity whose email is that of an existing
\* local account returns that account's record (same id), adds no User record and
\* sets the calling provider's id field on the record.
C8_ResolveExistingLocalAccount ==
    \A p \in Profiles : \A u \in Users(db) :
        (LocalOnly(u) /\ u.email = p.email) =>
            LET r == findOrCreateUser(db, ProfileUserData(p), nextId, now)
            IN /\ r.user.id = u.id
               /\ Len(r.db.users) = Len(db.users)
               /\ ProviderId(r.user, p.provider) = p.id
               /\ ProviderId(getUserById(r.db, u.id), p.provider) = p.id

\* C9: for one call of the application the agent sends at most one Refresh
\* request, whatever the Refresh request is answered.
C9_OneRefreshPerCall == cl.refreshes <= 1

\* C10: no call made through the agent is re-sent more than once, whatever its
\* answers are.
C10_ReplayedAtMostOnce ==
    /\ \A i \in 1..Len(cl.stack) : cl.stack[i].replays <= 1
    /\ cl.settled.replays <= 1

\* a call was answered 401, replayed after a refresh, answered 401 again and
\* rejected without a second replay
C10_Witness ==
    /\ cl.result = "rejected"
    /\ cl.settled.replays = 1
    /\ cl.settled.last = 401
    /\ cl.settled.retry

\* the answers by which a Refresh request fails
RefreshFailures == {401, 403, 500}

\* the refresh frames of the calls in progress
RefreshFrames ==
    {i \in 1..Len(cl.stack) : cl.stack[i].kind = "refresh"}

\* C11: when the Refresh request sent for a 401 fails (401, 403 or another error),
\* the agent sends nothing more for it: the failure goes back to the interceptor
\* that awaits it, and the call that had asked for the refresh ends rejected with
\* the held token null, the stored accessToken removed and the redirect to /login
\* assigned.
C11_RefreshFailureClearsSession ==
    /\ \A i \in RefreshFrames :
          cl.stack[i].last \in RefreshFailures =>
              /\ i = Len(cl.stack)
              /\ cl.stack[i].phase = "ended"
              /\ cl.ret = "error"
    /\ (cl.settled.retry /\ cl.settled.replays = 0) =>
          /\ cl.result = "rejected"
          /\ cl.token = 0
          /\ cl.stored = 0
          /\ cl.redirected

\* the second conjunct's case: a call whose refresh failed has settled
C11_Settled ==
    /\ cl.settled.retry /\ cl.settled.replays = 0
    /\ cl.result = "rejected" /\ cl.token = 0 /\ cl.stored = 0 /\ cl.redirected

\* the store holds a record of token t whose expiresAt is strictly later than now
HoldsLiveRecord(t) ==
    \E rt \in Records(db) : rt.token = t /\ DateOf(rt.expiresAt) > now

\* the store holds a record of token t whose expiresAt is now or earlier
HoldsExpiredRecord(t) ==
    \E rt \in Records(db) : rt.token = t /\ DateOf(rt.expiresAt) <= now

\* C12: Refresh answers 200 with an access token only if the store holds a record
\* of the presented token whose expiresAt is strictly later than now; with only an
\* expired record, as with no record, it answers 403 without a token; with no
\* cookie it answers 401.
C12_RefreshOnlyWithLiveRecord ==
    /\ \A t \in issuedRT \cup issuedAT :
          /\ RefreshNow(t).status = 200 =>
                HoldsLiveRecord(t) /\ RefreshNow(t).accessToken # NoToken
          /\ ~HoldsLiveRecord(t) =>
                RefreshNow(t).status = 403 /\ RefreshNow(t).accessToken = NoToken
    /\ RefreshNow(NoToken).status = 401

\* the store holds only an expired record of one issued token, which is rejected,
\* and a live record of another, which is accepted
C12_Witness ==
    /\ \E t \in issuedRT :
          HoldsExpiredRecord(t) /\ ~HoldsLiveRecord(t) /\ RefreshNow(t).status = 403
    /\ \E u \in issuedRT :
          HoldsLiveRecord(u) /\ RefreshNow(u).status = 200

\* the three ways a well-formed Login fails
NoSuchUser(email) ==
    \A u \in Users(db) : u.email # normalizeEmail(email)
ProviderOnlyUser(email) ==
    /\ ~NoSuchUser(email)
    /\ ~Truthy(getUserByEmail(db, normalizeEmail(email)).password)
WrongPassword(email, password) ==
    /\ ~NoSuchUser(email)
    /\ Truthy(getUserByEmail(db, normalizeEmail(email)).password)
    /\ getUserByEmail(db, normalizeEmail(email)).password # Hash(password)

\* C13: a Login for an email without user, for a user without password digest or
\* with a password that does not match the digest is answered by one and the same
\* response, 401 { error: 'Invalid credentials' }, with no access token and no
\* cookie, and the handler ends there (it never reaches saveRefreshToken).
C13_LoginFailuresIndistinguishable ==
    \A b \in LoginBodies :
        (b.valid /\ (\/ NoSuchUser(b.email)
                     \/ ProviderOnlyUser(b.email)
                     \/ WrongPassword(b.email, b.password))) =>
            /\ LoginCheckResponse(db, b.email, b.password, b.valid)
                   = Failure(401, "Invalid credentials")
            /\ LoginCheckResponse(db, b.email, b.password, b.valid) # NoResponse

\* the three cases are present at once
C13_Witness ==
    \E b1, b2, b3 \in LoginBodies :
        /\ b1.valid /\ NoSuchUser(b1.email)
        /\ b2.valid /\ ProviderOnlyUser(b2.email)
        /\ b3.valid /\ WrongPassword(b3.email, b3.password)

\* the JSON body of a response: everything but the cookie
JsonBody(r) == [error |-> r.error, user |-> r.user, accessToken |-> r.accessToken]

\* the responses the JSON routes can give in the current state: register and login
\* (their early answers and the one about to be sent once the token is saved),
\* refresh, logout, logout-all and profile
JsonResponses ==
    {RegisterCheckResponse(db, b.email, b.valid) : b \in RegisterBodies}
        \cup {LoginCheckResponse(db, b.email, b.password, b.valid) : b \in LoginBodies}
        \cup {SessionResponse(req[s]) :
                 s \in {x \in Slots : /\ req[x].pc = "save_write"
                                      /\ req[x].op \in {"register", "login"}}}
        \cup {RefreshHandler(db, c, now, f) : c \in Cookies, f \in BOOLEAN}
        \cup {StoreFailureResponse(op, "idle") : op \in StoreOperations}
        \cup {LogoutResponse(c) : c \in Cookies}
        \cup {ProfileResponse(db, b, now) : b \in Bearers}

\* the refresh token values that exist: those in the store, those of the requests
\* in progress and those already handed out
RefreshTokenValues ==
    {rt.token : rt \in Records(db)} \cup {req[s].refresh : s \in Slots} \cup issuedRT

\* C14: no JSON response body of register, login, refresh, logout, logout-all or
\* profile holds a password digest or a refresh token value.
C14_BodiesHoldNoSecret ==
    \A r \in JsonResponses :
        /\ ~Truthy(JsonBody(r).user.password)
        /\ JsonBody(r).accessToken = NoToken
              \/ /\ JsonBody(r).accessToken \notin RefreshTokenValues
                 /\ JsonBody(r).accessToken.sig # REFRESH_TOKEN_SECRET

\* a login or register response is about to be sent, and a profile is served, for
\* a user whose record holds a password digest
C14_Witness ==
    /\ \E s \in Slots :
          /\ req[s].pc = "save_write" /\ req[s].op \in {"register", "login"}
          /\ Truthy(req[s].user.password)
          /\ SessionResponse(req[s]).cookie \in RefreshTokenValues \ {NoToken}
    /\ \E b \in Bearers :
          /\ ProfileResponse(db, b, now).status = 200
          /\ Truthy(getUserById(db, b.userId).password)

\* C15: a Logout presenting no cookie or a token of which the store holds no
\* record is answered 200 like any other and leaves the store as it is (so a
\* second Logout of the same token changes nothing).
C15_LogoutIdempotent ==
    [][/\ \A c \in Cookies : LogoutResponse(c).status = 200
       /\ \A s \in Slots :
             (/\ req[s].pc = "logout_write" /\ req'[s].pc = "idle"
              /\ \A rt \in Records(db) : rt.token # req[s].presented) =>
                 db' = db]_vars

\* a second Logout of a token completes after the first one has
C15_SecondLogout ==
    \E s \in Slots :
        /\ req[s].pc = "logout_write"
        /\ req[s].presented \in loggedOut
        /\ req[s].pending = db

ServerErrors == 500..599

\* C16: when the store fails during Register, Login, Logout or LogoutAll, or
\* during the lookup of a Refresh whose token verifies, the answer is a 5xx.
C16_StoreFailureIsServerError ==
    /\ \A op \in StoreOperations :
          StoreFailureResponse(op, "idle").status \in ServerErrors
    /\ \A s \in Slots :
          req[s].op \in StoreOperations =>
              StoreFailureResponse(req[s].op, req[s].pc).status \in ServerErrors
    /\ \A c \in issuedRT :
          verifyRefreshToken(c, now) =>
              RefreshHandler(db, c, now, TRUE).status \in ServerErrors

\* the requests whose authentication succeeded and whose response is about to be sent
Completing == {s \in Slots : req[s].pc = "save_write"}

\* C17: the access token of a successful authentication event differs from the
\* access token of every other successful authentication event (of the same user
\* in particular), whenever the two are issued.
C17_DistinctAccessTokens ==
    \A s \in Completing :
        /\ SessionResponse(req[s]).accessToken \notin issuedAT
        /\ \A r \in Completing \ {s} :
              SessionResponse(req[r]).accessToken # SessionResponse(req[s]).accessToken

\* a second authentication event of a user completes in a later second than the
\* first, with a different access token
C17_LaterSecond ==
    \E s \in Completing : \E a \in issuedAT :
        /\ a.userId = SessionResponse(req[s]).accessToken.userId
        /\ a.iat < SessionResponse(req[s]).accessToken.iat
        /\ a # SessionResponse(req[s]).accessToken

\* C18: no two RefreshToken records of the store have the same token value (so
\* that a Logout removes the record of one session only).
C18_UniqueTokenValues ==
    \A i, j \in 1..Len(db.refreshTokens) :
        db.refreshTokens[i].token = db.refreshTokens[j].token => i = j

\* two sessions of one user issued in different seconds have two records with
\* different token values
C18_TwoSessions ==
    \E i, j \in 1..Len(db.refreshTokens) :
        /\ db.refreshTokens[i].userId = db.refreshTokens[j].userId
        /\ db.refreshTokens[i].token # db.refreshTokens[j].token

\* C19: a Refresh request, accepted or rejected, leaves the store as it was: the
\* same User records and the same RefreshToken records, the expired ones and the
\* presented one included.
C19_RefreshLeavesStore ==
    \A c \in Cookies :
        /\ RefreshStore(db, c, now) = db
        /\ Records(RefreshStore(db, c, now)) = Records(db)
        /\ Users(RefreshStore(db, c, now)) = Users(db)

\* one issued token is accepted by Refresh, another is rejected while its expired
\* record is still in the store
C19_Witness ==
    /\ \E t \in issuedRT :
          RefreshNow(t).status = 200 /\ t \in {rt.token : rt \in Records(db)}
    /\ \E u \in issuedRT :
          RefreshNow(u).status = 403 /\ HoldsExpiredRecord(u)

\* the state RegisteredDB stands for: one Register of a@x.com has completed
C20_RegisteredReached ==
    /\ db = RegisteredDB /\ nextId = 2 /\ now = 0
    /\ \A s \in Slots : req[s] = Idle
    /\ issuedRT = {generateRefreshToken(RefreshPayload(RegisteredUser), 0)}
    /\ issuedAT = {generateAccessToken(AccessPayload(RegisteredUser), 0)}

\* C20: when the resolver finds the user already in the store, its write leaves
\* the user's id, email, provider, name, password digest and createdAt as they
\* are, and at most the calling provider's id field changes (the other
\* provider's stays).
C20_ResolverFrame ==
    [][\A s \in Slots :
          (/\ req[s].pc = "oauth_write" /\ req'[s].pc = "save_read"
           /\ getUserById(db, req[s].user.id).id # 0) =>
              LET old == getUserById(db, req[s].user.id)
                  new == getUserById(db', req[s].user.id)
              IN /\ new.id = old.id
                 /\ new.email = old.email
                 /\ new.provider = old.provider
                 /\ new.name = old.name
                 /\ new.password = old.password
                 /\ new.createdAt = old.createdAt
                 /\ new.googleId = old.googleId \/ new.githubId = old.githubId]_vars

\* a resolver has linked a second provider to a user who had one linked before
C20_SecondProviderLinked ==
    \E u \in Users(db) :
        u.provider = "local" /\ Truthy(u.googleId) /\ Truthy(u.githubId)

\* the secret a token of each kind is signed with
SecretOf(kind) == IF kind = "access" THEN ACCESS_TOKEN_SECRET ELSE REFRESH_TOKEN_SECRET

\* the tokens handed out, each with its kind
KindedTokens ==
    {[kind |-> "access", token |-> a] : a \in issuedAT}
        \cup {[kind |-> "refresh", token |-> r] : r \in issuedRT}

\* C21: access and refresh tokens are not interchangeable.  An access token handed
\* out by the server and presented to Refresh fails refresh-token verification and
\* is answered 403 without a token, whatever the store holds for its userId; a
\* refresh token presented as a bearer fails access-token verification (401); and
\* a token verifies only under the secret of its own kind.
C21_TokensNotInterchangeable ==
    /\ \A a \in issuedAT :
          /\ ~verifyRefreshToken(a, now)
          /\ RefreshNow(a) = Failure(403, "Invalid refresh token")
    /\ \A r \in issuedRT :
          /\ ~verifyAccessToken(r, now)
          /\ ProfileResponse(db, r, now).status = 401
    /\ \A k \in KindedTokens, kind \in {"access", "refresh"} :
          JwtVerify(k.token, SecretOf(kind), now) => kind = k.kind

\* a server on which Refresh and Profile can be asked with a token of the other
\* kind: an unexpired access token whose user owns a live refresh-token record,
\* and that record's unexpired refresh token
C21_Witness ==
    /\ req[1].pc = "idle"
    /\ \E a \in issuedAT, r \in issuedRT :
          /\ verifyAccessToken(a, now)
          /\ verifyRefreshToken(r, now)
          /\ a.userId = r.userId
          /\ HoldsLiveRecord(r)
          /\ \E rt \in Records(db) : rt.userId = a.userId

\* C22: session-issuing requests are independent under concurrency.  As long as
\* no Logout or LogoutAll has reached the store, every refresh token returned by a
\* Login, Register or OAuth callback that answered success has its record in the
\* store, whatever other session-issuing requests overlapped with it, and is
\* accepted by Refresh while unexpired.
C22_ConcurrentSessionsKept ==
    revocations = 0 =>
        \A t \in issuedRT :
            /\ \E rt \in Records(db) : rt.token = t /\ rt.userId = t.userId
            /\ Unexpired(t) => RefreshNow(t).status = 200

\* two sessions issued, both records in the store
C22_TwoSessionsKept ==
    /\ revocations = 0
    /\ \E t1, t2 \in issuedRT :
          /\ t1 # t2
          /\ \E rt \in Records(db) : rt.token = t1
          /\ \E rt \in Records(db) : rt.token = t2

\* the ids of the users whose Register, Login or OAuth callback answered success
\* (Login only succeeds for a user created before)
SucceededUserIds == {a.userId : a \in issuedAT}

\* C23: a User record created by a Register or OAuth callback that answered
\* success is in the store, under the same id, in every later state.
C23_UserRecordPersists ==
    \A id \in SucceededUserIds : \E u \in Users(db) : u.id = id

\* a user still in the store after a Logout and a LogoutAll have completed
C23_KeptThroughRevocations ==
    /\ loggedOut # {}
    /\ revokedAll # {}
    /\ SucceededUserIds # {}
    /\ \A id \in SucceededUserIds : \E u \in Users(db) : u.id = id

\* the replays sent so far by the calls in progress (one pair per replay)
ReplaysInProgress ==
    Cardinality({<<i, k>> \in (1..Len(cl.stack)) \X (1..MaxDepth + MaxCalls) :
                    k <= cl.stack[i].replays})

\* requests the agent has sent for the application's current call: the call
\* itself, the refresh requests, and the replays of the calls still in progress
\* (of the call itself once it has settled)
RequestsSent ==
    IF cl.stack = <<>> THEN 1 + cl.refreshes + cl.settled.replays
    ELSE 1 + cl.refreshes + ReplaysInProgress

\* C24: a call made through the agent settles after a bounded number of requests,
\* whatever the server answers: the call, at most one Refresh request, at most one
\* replay.  In particular a Refresh request answered 401 is not followed by
\* another request.
C24_SettlesWithinThreeRequests ==
    /\ cl.calls > 0 => RequestsSent <= 3
    /\ \A i \in RefreshFrames : cl.stack[i].last = 401 => cl.stack[i].phase = "ended"

\* a call that settled after exactly three requests: 401, Refresh 200, replay 200
C24_SettledAfterThree ==
    /\ cl.stack = <<>>
    /\ cl.result = "resolved"
    /\ cl.settled.retry
    /\ cl.settled.replays = 1
    /\ cl.refreshes = 1

\* C25: Register is all-or-nothing.  When a Register request ends with 500 because
\* a file operation threw, whichever one it was, the store holds neither the User
\* record the request built nor a RefreshToken record of that user.  (The 400 and
\* 409 answers are given before any write: RegisterCheck leaves every variable
\* unchanged.)
C25_RegisterAllOrNothing ==
    [][\A s \in Slots :
          (req[s].op = "register" /\ StoreFailure(s, "register")) =>
              /\ \A u \in Users(db') : u.id # req[s].user.id
              /\ \A rt \in Records(db') : rt.userId # req[s].user.id]_vars

\* no operation of the context is in progress
ContextIdle == cl.op = "none" /\ cl.stack = <<>>

\* the held token and the stored accessToken agree: both absent, or the same token
HeldAndStoredAgree == cl.token = cl.stored

\* the session is gone from the client
SessionCleared == cl.token = 0 /\ cl.stored = 0 /\ cl.user = 0

\* C26: whenever no client operation is in progress the held token and the
\* stored accessToken agree, and when the operation that returned last is the
\* context's logout() both are absent and user is null, however the server
\* answered.
C26_HeldAndStoredTokenAgree ==
    ContextIdle =>
        /\ HeldAndStoredAgree
        /\ cl.returned = "logout" => SessionCleared

\* logout() returned after the server answered 200, on a client that was signed in
C26_LoggedOut ==
    /\ ContextIdle
    /\ cl.returned = "logout"
    /\ cl.result = "resolved"
    /\ cl.minted > 0
    /\ SessionCleared

====
